---- MODULE Spec2Model ----
(***************************************************************************)
(* A model of the LRU cache engine of package lru (lru/lru.go): a bounded   *)
(* key/value cache with least-recently-used eviction and lazy per-entry    *)
(* TTL expiration.                                                         *)
(*                                                                         *)
(* The engine is the record cache, with the fields capacity, name, items   *)
(* and usageOrder of LRUCache.  A *list.Element is an element identity (a  *)
(* positive number); the field elems maps every element that is still      *)
(* referenced to the *entry it carries.  The package-level Prometheus      *)
(* collectors are modelled by metrics, the observations made by the last   *)
(* call.  time.Now() is the variable now; time only moves forward.         *)
(*                                                                         *)
(* SafeLRUCache (lru/safe_lru.go) and ObservableCache.State are modelled   *)
(* with two threads, the mutex, and the wrapped call executed one mutation *)
(* at a time; a third specification wraps the fakeLRUCache of the tests.   *)
(***************************************************************************)
EXTENDS Integers, Sequences, FiniteSets, TLC

VARIABLES
    cache,       \* the LRUCache: capacity, name, items (key -> element),
                 \* usageOrder (elements, front first), elems (element -> entry)
    metrics,     \* observations recorded by the last call, in order
    now,         \* the clock read by time.Now()
    last,        \* the last call made and what it returned
    plan,        \* a scripted sequence of calls (scenario specifications)
    hist,        \* the scripted calls completed so far, with their results
    mutex,       \* SafeLRUCache.mutex: Free, or the thread that holds it
    threads,     \* what each thread is doing in the wrapper
    ref          \* an unwrapped LRUCache given the calls in lock order

vars == <<cache, metrics, now, last, plan, hist, mutex, threads, ref>>

-----------------------------------------------------------------------------
(* Bounds of the model. *)

MaxCap == 2
MaxTime == 3
MaxProbes == 3

\* The inputs of the calls.
Keys == {"a", "b", "c"}
SomeValues == {"1", "2"}         \* the values Set is called with
TTLValues == {"1"}               \* the values SetWithTTL is called with
ScriptValues == <<"1", "2", "3">> \* the values of a scripted run, by position
TTLs == {-1, 0, 1}
Deltas == {0, 1, 2}
Nil == "nil"

-----------------------------------------------------------------------------
(* Strings of the package. *)

setStatusAdded == "added"
setStatusUpdated == "updated"
setStatusExpired == "expired"

metricCacheTypeLRU == "lru"
metricCacheTypeSafeLRU == "safe_lru"
metricOpGet == "get"
metricOpSet == "set"
metricOpRemove == "remove"
metricReasonManual == "manual"
metricReasonExpired == "expired"
metricReasonEvicted == "evicted"

-----------------------------------------------------------------------------
(* time.Time.  The zero Time is its own value, before every real instant. *)

ZeroTime == [isZero |-> TRUE, t |-> 0]
Instant(t) == [isZero |-> FALSE, t |-> t]
IsZero(x) == x.isZero
Before(x, y) == IF x.isZero THEN ~y.isZero ELSE (~y.isZero /\ x.t < y.t)
Add(x, d) == Instant(x.t + d)

\* hasExpired(expiration), evaluated when the clock reads tnow.
hasExpired_inclusive(expiration, tnow) ==
    ~IsZero(expiration) /\ ~Before(tnow, expiration)

hasExpired(expiration, tnow) ==
    ~IsZero(expiration) /\ Before(expiration, tnow)

\* (e *entry) hasExpired()
entry_hasExpired(e, tnow) == hasExpired(e.expiresAt, tnow)

-----------------------------------------------------------------------------
(* container/list and the map, as the engine uses them. *)

Range(f) == {f[x] : x \in DOMAIN f}

EmptyMap == [x \in {} |-> 0]
MapPut(m, k, e) == [x \in (DOMAIN m) \cup {k} |-> IF x = k THEN e ELSE m[x]]
MapDelete(m, k) == [x \in (DOMAIN m) \ {k} |-> m[x]]

ListRemove(l, e) == SelectSeq(l, LAMBDA x : x # e)
PushFront(l, e) == <<e>> \o l
Reverse(l) == [i \in 1..Len(l) |-> l[Len(l) + 1 - i]]
MoveToFront_reversing(l, e) ==
    IF e \in Range(l) THEN <<e>> \o Reverse(ListRemove(l, e)) ELSE l
MoveToFront(l, e) == IF e \in Range(l) THEN <<e>> \o ListRemove(l, e) ELSE l

\* The elements some field of the cache still refers to; the others are garbage.
Referenced(c) == Range(c.items) \cup Range(c.usageOrder)

\* Element identities are opaque, so a state is kept in one canonical naming:
\* the element at position i of the list is named i (an element only the map
\* still refers to keeps a name beyond the list).
Canonical(c) ==
    LET order == c.usageOrder
        n == Len(order)
        ren == [e \in DOMAIN c.elems |->
                  IF \E i \in 1..n : order[i] = e
                  THEN CHOOSE i \in 1..n : order[i] = e
                  ELSE n + e]
    IN [c EXCEPT !.items = [k \in DOMAIN c.items |-> ren[c.items[k]]],
                 !.usageOrder = [i \in 1..n |-> ren[order[i]]],
                 !.elems = [m \in {ren[e] : e \in DOMAIN c.elems} |->
                               c.elems[CHOOSE e \in DOMAIN c.elems : ren[e] = m]]]

\* A newly allocated element: an identity no live element has.
NewElem(c) ==
    CHOOSE e \in 1..(Cardinality(Referenced(c)) + 1) : e \notin Referenced(c)

-----------------------------------------------------------------------------
(* Observations on the package-level collectors. *)

Obs(m, c, op, reason, v) ==
    [metric |-> m, cache_type |-> c.name, operation |-> op, reason |-> reason, val |-> v]

Record(c, o) == [c EXCEPT !.metrics = Append(@, o)]

-----------------------------------------------------------------------------
(* The engine: each operator takes the cache c and gives the cache after   *)
(* the call (and the call's results).                                      *)

NewLRUCache(cap) ==
    [capacity |-> cap, name |-> metricCacheTypeLRU, items |-> EmptyMap,
     usageOrder |-> <<>>, elems |-> EmptyMap, metrics |-> <<>>]

CacheLen(c) == Len(c.usageOrder)

Capacity(c) == c.capacity

remove_keepIndex(c, key, reason) ==
    IF key \in DOMAIN c.items
    THEN LET order == ListRemove(c.usageOrder, c.items[key])
         IN [c EXCEPT !.usageOrder = order,
                      !.metrics = @ \o <<Obs("evictions", c, metricOpRemove, reason, 1),
                                         Obs("total_items", c, metricOpRemove, "", Len(order))>>]
    ELSE c

remove_anyway(c, key, reason) ==
    LET victim == IF key \in DOMAIN c.items THEN key
                  ELSE c.elems[c.usageOrder[Len(c.usageOrder)]].key
    IN IF key \in DOMAIN c.items \/ Len(c.usageOrder) > 0
       THEN LET order == ListRemove(c.usageOrder, c.items[victim])
                index == MapDelete(c.items, victim)
            IN [c EXCEPT !.usageOrder = order,
                         !.items = index,
                         !.elems = [e \in Range(index) \cup Range(order) |-> c.elems[e]],
                         !.metrics = @ \o <<Obs("evictions", c, metricOpRemove, reason, 1),
                                            Obs("total_items", c, metricOpRemove, "", Len(order))>>]
       ELSE c

remove_uncounted(c, key, reason) ==
    IF key \in DOMAIN c.items
    THEN LET order == ListRemove(c.usageOrder, c.items[key])
             index == MapDelete(c.items, key)
         IN [c EXCEPT !.usageOrder = order,
                      !.items = index,
                      !.elems = [e \in Range(index) \cup Range(order) |-> c.elems[e]],
                      !.metrics = @ \o <<Obs("total_items", c, metricOpRemove, "", Len(order))>>]
    ELSE c

remove(c, key, reason) ==
    IF key \in DOMAIN c.items
    THEN LET order == ListRemove(c.usageOrder, c.items[key])
             index == MapDelete(c.items, key)
         IN [c EXCEPT !.usageOrder = order,
                      !.items = index,
                      !.elems = [e \in Range(index) \cup Range(order) |-> c.elems[e]],
                      !.metrics = @ \o <<Obs("evictions", c, metricOpRemove, reason, 1),
                                         Obs("total_items", c, metricOpRemove, "", Len(order))>>]
    ELSE c

Get_noMove(c, key, tnow) ==
    IF key \in DOMAIN c.items
    THEN LET elem == c.items[key] IN
         IF entry_hasExpired(c.elems[elem], tnow)
         THEN [c |-> remove(c, key, metricReasonExpired), value |-> Nil, found |-> FALSE]
         ELSE [c |-> Record(c, Obs("hits", c, metricOpGet, "", 1)),
               value |-> c.elems[elem].value, found |-> TRUE]
    ELSE [c |-> Record(c, Obs("misses", c, metricOpGet, "", 1)),
          value |-> Nil, found |-> FALSE]

Get_noPurge(c, key, tnow) ==
    IF key \in DOMAIN c.items
    THEN LET elem == c.items[key] IN
         IF entry_hasExpired(c.elems[elem], tnow)
         THEN [c |-> c, value |-> Nil, found |-> FALSE]
         ELSE [c |-> Record([c EXCEPT !.usageOrder = MoveToFront(@, elem)],
                            Obs("hits", c, metricOpGet, "", 1)),
               value |-> c.elems[elem].value, found |-> TRUE]
    ELSE [c |-> Record(c, Obs("misses", c, metricOpGet, "", 1)),
          value |-> Nil, found |-> FALSE]

\* Get, purging an expired entry at the back when the key is absent.
Get_sweeping(c, key, tnow) ==
    IF key \in DOMAIN c.items
    THEN LET elem == c.items[key] IN
         IF entry_hasExpired(c.elems[elem], tnow)
         THEN [c |-> remove(c, key, metricReasonExpired), value |-> Nil, found |-> FALSE]
         ELSE [c |-> Record([c EXCEPT !.usageOrder = MoveToFront(@, elem)],
                            Obs("hits", c, metricOpGet, "", 1)),
               value |-> c.elems[elem].value, found |-> TRUE]
    ELSE LET swept == IF CacheLen(c) > 0
                         /\ entry_hasExpired(c.elems[c.usageOrder[Len(c.usageOrder)]], tnow)
                      THEN remove(c, c.elems[c.usageOrder[Len(c.usageOrder)]].key,
                                  metricReasonExpired)
                      ELSE c
         IN [c |-> Record(swept, Obs("misses", c, metricOpGet, "", 1)),
             value |-> Nil, found |-> FALSE]

Get(c, key, tnow) ==
    IF key \in DOMAIN c.items
    THEN LET elem == c.items[key] IN
         IF entry_hasExpired(c.elems[elem], tnow)
         THEN [c |-> remove(c, key, metricReasonExpired), value |-> Nil, found |-> FALSE]
         ELSE [c |-> Record([c EXCEPT !.usageOrder = MoveToFront(@, elem)],
                            Obs("hits", c, metricOpGet, "", 1)),
               value |-> c.elems[elem].value, found |-> TRUE]
    ELSE [c |-> Record(c, Obs("misses", c, metricOpGet, "", 1)),
          value |-> Nil, found |-> FALSE]

update_keepValue(c, element, value, expiration) ==
    [c EXCEPT !.elems[element].expiresAt = expiration,
              !.usageOrder = MoveToFront(@, element),
              !.metrics = Append(@, Obs("hits", c, metricOpSet, "", 1))]

\* update, leaving a deadline in place when the new one is the zero time.
update_keepExpiry(c, element, value, expiration) ==
    [c EXCEPT !.elems[element].value = value,
              !.elems[element].expiresAt = IF IsZero(expiration) THEN @ ELSE expiration,
              !.usageOrder = MoveToFront(@, element),
              !.metrics = Append(@, Obs("hits", c, metricOpSet, "", 1))]

update(c, element, value, expiration) ==
    [c EXCEPT !.elems[element].value = value,
              !.elems[element].expiresAt = expiration,
              !.usageOrder = MoveToFront(@, element),
              !.metrics = Append(@, Obs("hits", c, metricOpSet, "", 1))]

checkCapacity_never(c) == c

checkCapacity_front(c) ==
    IF CacheLen(c) >= c.capacity
    THEN IF CacheLen(c) > 0
         THEN remove(c, c.elems[c.usageOrder[1]].key, metricReasonEvicted)
         ELSE c
    ELSE c

\* checkCapacity, taking the rearmost entry that has a deadline when there
\* is one, and the back entry otherwise.
checkCapacity_deadlineFirst(c) ==
    IF CacheLen(c) >= c.capacity
    THEN IF CacheLen(c) > 0
         THEN LET timed == {i \in 1..CacheLen(c) : ~IsZero(c.elems[c.usageOrder[i]].expiresAt)}
                  victim == IF timed = {} THEN CacheLen(c)
                            ELSE CHOOSE i \in timed : \A j \in timed : j <= i
              IN remove(c, c.elems[c.usageOrder[victim]].key, metricReasonEvicted)
         ELSE c
    ELSE c

checkCapacity(c) ==
    IF CacheLen(c) >= c.capacity
    THEN IF CacheLen(c) > 0
         THEN remove(c, c.elems[c.usageOrder[CacheLen(c)]].key, metricReasonEvicted)
         ELSE c
    ELSE c

set(c, key, value, expiration) ==
    IF key \in DOMAIN c.items
    THEN [c |-> update(c, c.items[key], value, expiration), status |-> setStatusUpdated]
    ELSE LET c1 == checkCapacity(c)
             newElem == NewElem(c1)
             newEntry == [key |-> key, value |-> value, expiresAt |-> expiration]
             order == PushFront(c1.usageOrder, newElem)
         IN [c |-> [c1 EXCEPT !.usageOrder = order,
                              !.items = MapPut(@, key, newElem),
                              !.elems = MapPut(@, newElem, newEntry),
                              !.metrics = @ \o <<Obs("misses", c, metricOpSet, "", 1),
                                                 Obs("total_items", c, metricOpSet, "", Len(order))>>],
             status |-> setStatusAdded]

Set(c, key, value) == set(c, key, value, ZeroTime)

\* t1 is the clock at the call, t2 the clock when hasExpired reads it again.
SetWithTTL_evicting(c, key, value, ttl, t1, t2) ==
    LET expiration == Add(Instant(t1), ttl)
        r == IF ~hasExpired(expiration, Instant(t2))
             THEN set(c, key, value, expiration)
             ELSE [c |-> remove(checkCapacity(c), key, metricReasonExpired),
                   status |-> setStatusExpired]
    IN [c |-> Record(r.c, Obs("expiration", r.c, "", "", ttl)), status |-> r.status]

SetWithTTL(c, key, value, ttl, t1, t2) ==
    LET expiration == Add(Instant(t1), ttl)
        r == IF ~hasExpired(expiration, Instant(t2))
             THEN set(c, key, value, expiration)
             ELSE [c |-> remove(c, key, metricReasonExpired),
                   status |-> setStatusExpired]
    IN [c |-> Record(r.c, Obs("expiration", r.c, "", "", ttl)), status |-> r.status]

Remove(c, key) == remove(c, key, metricReasonManual)

-----------------------------------------------------------------------------
(* The state machine: one call at a time on one engine. *)

\* The engine as a call finds it: nothing observed yet.
Cache ==
    [capacity |-> cache.capacity, name |-> cache.name, items |-> cache.items,
     usageOrder |-> cache.usageOrder, elems |-> cache.elems, metrics |-> <<>>]

Engine(f) ==
    [capacity |-> f.capacity, name |-> f.name, items |-> f.items,
     usageOrder |-> f.usageOrder, elems |-> f.elems, metrics |-> <<>>]

Fields(c) ==
    [capacity |-> c.capacity, name |-> c.name, items |-> c.items,
     usageOrder |-> c.usageOrder, elems |-> c.elems]

Commit(c) ==
    /\ cache' = Fields(Canonical(c))
    /\ metrics' = c.metrics

\* TLC evaluates a call once when its result is bound by \E over a singleton.

Call(op, key, value, ttl, status, found, ret) ==
    [op |-> op, key |-> key, value |-> value, ttl |-> ttl,
     status |-> status, found |-> found, ret |-> ret]

NoCall == Call("New", "", Nil, 0, "", FALSE, Nil)

\* The wrapper, before any thread calls it.
Threads == {"t1", "t2"}
Free == "free"
Idle == [pc |-> "idle", call |-> NoCall, steps |-> <<>>, inner |-> <<>>]
NoRef == [c |-> Fields(NewLRUCache(0)), ret |-> NoCall]

\* The state after NewLRUCache(cap), for a positive capacity.
Init ==
    /\ \E cap \in 1..MaxCap :
          /\ cache = Fields(NewLRUCache(cap))
          /\ metrics = NewLRUCache(cap).metrics
    /\ now = 1
    /\ last = NoCall
    /\ plan = <<>>
    /\ hist = <<>>
    /\ mutex = Free
    /\ threads = [t \in Threads |-> Idle]
    /\ ref = NoRef

GetCall(key) ==
    \E r \in {Get(Cache, key, Instant(now))} :
    /\ Commit(r.c)
    /\ last' = Call("Get", key, Nil, 0, "", r.found, r.value)
    /\ UNCHANGED <<now, plan, hist, mutex, threads, ref>>

SetCall(key, value) ==
    \E r \in {Set(Cache, key, value)} :
    /\ Commit(r.c)
    /\ last' = Call("Set", key, value, 0, r.status, FALSE, Nil)
    /\ UNCHANGED <<now, plan, hist, mutex, threads, ref>>

\* The clock may move by d between the two reads SetWithTTL makes of it.
SetWithTTLCall(key, value, ttl, d) ==
    /\ now + d <= MaxTime
    /\ \E r \in {SetWithTTL(Cache, key, value, ttl, now, now + d)} :
       /\ Commit(r.c)
       /\ last' = Call("SetWithTTL", key, value, ttl, r.status, FALSE, Nil)
    /\ now' = now + d
    /\ UNCHANGED <<plan, hist, mutex, threads, ref>>

RemoveCall(key) ==
    /\ Commit(Remove(Cache, key))
    /\ last' = Call("Remove", key, Nil, 0, "", FALSE, Nil)
    /\ UNCHANGED <<now, plan, hist, mutex, threads, ref>>

\* Time passes between two calls.
Tick ==
    /\ now < MaxTime
    /\ now' = now + 1
    /\ Commit(Cache)
    /\ last' = Call("Tick", "", Nil, 0, "", FALSE, Nil)
    /\ UNCHANGED <<plan, hist, mutex, threads, ref>>

Next ==
    \/ \E key \in Keys : GetCall(key)
    \/ \E key \in Keys, value \in SomeValues : SetCall(key, value)
    \/ \E key \in Keys, value \in TTLValues, ttl \in TTLs, d \in Deltas :
          SetWithTTLCall(key, value, ttl, d)
    \/ \E key \in Keys : RemoveCall(key)
    \/ Tick

Spec == Init /\ [][Next]_vars

-----------------------------------------------------------------------------
(* Scripted runs: n distinct keys are inserted with Set into a new cache,   *)
(* the first is read, one more new key is inserted, and then keys are read  *)
(* back.  The calls go through the same engine.                            *)

Step(op, key, value) == [op |-> op, key |-> key, value |-> value]

Script(ks) ==
    LET n == Len(ks) - 1 IN
    [i \in 1..(n + 2) |->
        IF i <= n THEN Step("Set", ks[i], ScriptValues[i])
        ELSE IF i = n + 1 THEN Step("Get", ks[1], Nil)
        ELSE Step("Set", ks[n + 1], ScriptValues[n + 1])]

Injective(ks) == \A i, j \in DOMAIN ks : i # j => ks[i] # ks[j]

ScriptInit ==
    /\ \E cap \in 1..MaxCap :
          /\ cache = Fields(NewLRUCache(cap))
          /\ metrics = NewLRUCache(cap).metrics
          /\ \E n \in 1..cap :
                /\ n + 1 <= Len(ScriptValues)
                /\ \E ks \in [1..(n + 1) -> Keys] :
                      /\ Injective(ks)
                      /\ plan = Script(ks)
    /\ now = 1
    /\ last = NoCall
    /\ hist = <<>>
    /\ mutex = Free
    /\ threads = [t \in Threads |-> Idle]
    /\ ref = NoRef

ScriptSet ==
    /\ Len(hist) < Len(plan)
    /\ plan[Len(hist) + 1].op = "Set"
    /\ \E s \in {plan[Len(hist) + 1]} :
       \E r \in {Set(Cache, s.key, s.value)} :
          /\ Commit(r.c)
          /\ last' = Call("Set", s.key, s.value, 0, r.status, FALSE, Nil)
          /\ hist' = Append(hist, Call("Set", s.key, s.value, 0, r.status, FALSE, Nil))
    /\ UNCHANGED <<now, plan, mutex, threads, ref>>

ScriptGet ==
    /\ Len(hist) < Len(plan)
    /\ plan[Len(hist) + 1].op = "Get"
    /\ \E s \in {plan[Len(hist) + 1]} :
       \E r \in {Get(Cache, s.key, Instant(now))} :
          /\ Commit(r.c)
          /\ last' = Call("Get", s.key, Nil, 0, "", r.found, r.value)
          /\ hist' = Append(hist, Call("Get", s.key, Nil, 0, "", r.found, r.value))
    /\ UNCHANGED <<now, plan, mutex, threads, ref>>

Probe(key) ==
    /\ Len(hist) >= Len(plan)
    /\ Len(hist) < Len(plan) + MaxProbes
    /\ \E r \in {Get(Cache, key, Instant(now))} :
          /\ Commit(r.c)
          /\ last' = Call("Get", key, Nil, 0, "", r.found, r.value)
          /\ hist' = Append(hist, Call("Get", key, Nil, 0, "", r.found, r.value))
    /\ UNCHANGED <<now, plan, mutex, threads, ref>>

ScriptNext ==
    \/ ScriptSet
    \/ ScriptGet
    \/ \E key \in Keys : Probe(key)

SpecScript == ScriptInit /\ [][ScriptNext]_vars

-----------------------------------------------------------------------------
(* Runs after TestSetAfterSetWithTTL: two entries are stored with a TTL,    *)
(* the caller sleeps, Set overwrites the first key, and keys are then read  *)
(* back while time goes on.                                                 *)

OverrideValues == <<"1", "2", "3">>
Sleeps == {0, 1, 2}

TimedStep(op, key, value, ttl) == [op |-> op, key |-> key, value |-> value, ttl |-> ttl]

OverrideScript(k1, k2, ttl, sleep) ==
    << TimedStep("SetWithTTL", k1, OverrideValues[1], ttl),
       TimedStep("SetWithTTL", k2, OverrideValues[2], ttl),
       TimedStep("Sleep", "", Nil, sleep),
       TimedStep("Set", k1, OverrideValues[3], 0) >>

OverrideInit ==
    /\ \E cap \in 1..MaxCap :
          /\ cache = Fields(NewLRUCache(cap))
          /\ metrics = NewLRUCache(cap).metrics
    /\ \E k1 \in Keys, k2 \in Keys, sleep \in Sleeps :
          plan = OverrideScript(k1, k2, 1, sleep)
    /\ now = 1
    /\ last = NoCall
    /\ hist = <<>>
    /\ mutex = Free
    /\ threads = [t \in Threads |-> Idle]
    /\ ref = NoRef

ScriptSetWithTTL(d) ==
    /\ Len(hist) < Len(plan)
    /\ plan[Len(hist) + 1].op = "SetWithTTL"
    /\ \E s \in {plan[Len(hist) + 1]} :
       \E r \in {SetWithTTL(Cache, s.key, s.value, s.ttl, now, now + d)} :
          /\ Commit(r.c)
          /\ last' = Call("SetWithTTL", s.key, s.value, s.ttl, r.status, FALSE, Nil)
          /\ hist' = Append(hist, Call("SetWithTTL", s.key, s.value, s.ttl, r.status, FALSE, Nil))
    /\ now' = now + d
    /\ UNCHANGED <<plan, mutex, threads, ref>>

\* time.Sleep(d): the call record keeps the duration slept.
ScriptSleep ==
    /\ Len(hist) < Len(plan)
    /\ plan[Len(hist) + 1].op = "Sleep"
    /\ \E s \in {plan[Len(hist) + 1]} :
          /\ now' = now + s.ttl
          /\ last' = Call("Sleep", "", Nil, s.ttl, "", FALSE, Nil)
          /\ hist' = Append(hist, Call("Sleep", "", Nil, s.ttl, "", FALSE, Nil))
    /\ Commit(Cache)
    /\ UNCHANGED <<plan, mutex, threads, ref>>

OverrideNext ==
    \/ \E d \in Deltas : ScriptSetWithTTL(d)
    \/ ScriptSleep
    \/ ScriptSet
    \/ \E key \in Keys : Probe(key)
    \/ Tick

SpecOverride == OverrideInit /\ [][OverrideNext]_vars

-----------------------------------------------------------------------------
(* Runs that fill a cache and insert one more key: two entries are stored,  *)
(* each with or without a TTL, the caller sleeps, a third Set follows, and  *)
(* keys are then read back while time goes on.                              *)

FillScript(op1, k1, op2, k2, sleep, k3) ==
    << TimedStep(op1, k1, OverrideValues[1], IF op1 = "Set" THEN 0 ELSE 1),
       TimedStep(op2, k2, OverrideValues[2], IF op2 = "Set" THEN 0 ELSE 1),
       TimedStep("Sleep", "", Nil, sleep),
       TimedStep("Set", k3, OverrideValues[3], 0) >>

FillInit ==
    /\ \E cap \in 1..MaxCap :
          /\ cache = Fields(NewLRUCache(cap))
          /\ metrics = NewLRUCache(cap).metrics
    /\ \E op1 \in {"Set", "SetWithTTL"}, op2 \in {"Set", "SetWithTTL"},
          k1 \in Keys, k2 \in Keys, k3 \in Keys, sleep \in Sleeps :
          plan = FillScript(op1, k1, op2, k2, sleep, k3)
    /\ now = 1
    /\ last = NoCall
    /\ hist = <<>>
    /\ mutex = Free
    /\ threads = [t \in Threads |-> Idle]
    /\ ref = NoRef

SpecFill == FillInit /\ [][OverrideNext]_vars

-----------------------------------------------------------------------------
(* The engine's calls, statement by statement: the states the cache goes    *)
(* through between the first mutation of a call and its last.              *)

remove_steps(c, key) ==
    IF key \in DOMAIN c.items
    THEN << [c EXCEPT !.usageOrder = ListRemove(@, c.items[key])] >>
    ELSE << >>

checkCapacity_steps(c) ==
    IF CacheLen(c) >= c.capacity /\ CacheLen(c) > 0
    THEN remove_steps(c, c.elems[c.usageOrder[CacheLen(c)]].key)
    ELSE << >>

update_steps(c, element, value, expiration) ==
    << [c EXCEPT !.elems[element].value = value],
       [c EXCEPT !.elems[element].value = value,
                 !.elems[element].expiresAt = expiration] >>

set_steps(c, key, value, expiration) ==
    IF key \in DOMAIN c.items
    THEN update_steps(c, c.items[key], value, expiration)
    ELSE LET c1 == checkCapacity(c)
             newElem == NewElem(c1)
             newEntry == [key |-> key, value |-> value, expiresAt |-> expiration]
         IN checkCapacity_steps(c)
            \o (IF CacheLen(c1) # CacheLen(c) THEN << c1 >> ELSE << >>)
            \o << [c1 EXCEPT !.usageOrder = PushFront(@, newElem),
                             !.elems = MapPut(@, newElem, newEntry)] >>

Get_steps(c, key, tnow) ==
    IF key \in DOMAIN c.items /\ entry_hasExpired(c.elems[c.items[key]], tnow)
    THEN remove_steps(c, key)
    ELSE << >>

SetWithTTL_steps(c, key, value, ttl, t1, t2) ==
    IF ~hasExpired(Add(Instant(t1), ttl), Instant(t2))
    THEN set_steps(c, key, value, Add(Instant(t1), ttl))
    ELSE remove_steps(c, key)

-----------------------------------------------------------------------------
(* SafeLRUCache (lru/safe_lru.go) and ObservableCache.State.               *)

NewSafeLRUCache(cap) == [NewLRUCache(cap) EXCEPT !.name = metricCacheTypeSafeLRU]

\* cache.(*LRUCache): whether the wrapped object is the engine.
IsLRUCache(w) == "items" \in DOMAIN w

\* fmt.Sprintf("%v", value): the values of the model are strings, which %v
\* renders as they are.
Sprintf(value) == value

\* The walk of ObservableCache.State from position i on, prev being the key
\* of the node before it.
RECURSIVE StateItems_noLinks(_, _, _)
StateItems_noLinks(c, i, prev) ==
    IF i > Len(c.usageOrder) THEN << >>
    ELSE LET ent == c.elems[c.usageOrder[i]]
         IN << [Key |-> ent.key, Value |-> Sprintf(ent.value),
                ExpiresAt |-> ent.expiresAt, Prev |-> "", Next |-> prev] >>
            \o StateItems_noLinks(c, i + 1, ent.key)

RECURSIVE StateItems(_, _, _)
StateItems(c, i, prev) ==
    IF i > Len(c.usageOrder) THEN << >>
    ELSE LET ent == c.elems[c.usageOrder[i]]
             next == IF i + 1 > Len(c.usageOrder) THEN ""
                     ELSE c.elems[c.usageOrder[i + 1]].key
         IN << [Key |-> ent.key, Value |-> Sprintf(ent.value),
                ExpiresAt |-> ent.expiresAt, Prev |-> prev, Next |-> next] >>
            \o StateItems(c, i + 1, ent.key)

EmptyState == [Capacity |-> 0, Items |-> << >>]

\* ObservableCache.State, on the wrapped object w: w after the call and the
\* state returned.
State_purging(w) ==
    IF IsLRUCache(w)
    THEN LET live == SelectSeq(w.usageOrder, LAMBDA e : IsZero(w.elems[e].expiresAt))
             c == [w EXCEPT !.usageOrder = live,
                            !.items = [k \in {w.elems[e].key : e \in Range(live)} |->
                                          w.items[k]]]
         IN [w |-> c, state |-> [Capacity |-> c.capacity, Items |-> StateItems(c, 1, "")]]
    ELSE [w |-> w, state |-> EmptyState]

State(w) ==
    IF IsLRUCache(w)
    THEN [w |-> w, state |-> [Capacity |-> w.capacity, Items |-> StateItems(w, 1, "")]]
    ELSE [w |-> w, state |-> EmptyState]

\* SafeLRUCache.UnsafePeek, on the wrapped object w.
UnsafePeek_live(w, key) ==
    IF IsLRUCache(w)
    THEN IF key \in DOMAIN w.items /\ ~entry_hasExpired(w.elems[w.items[key]], Instant(now))
         THEN [value |-> w.elems[w.items[key]].value, found |-> TRUE, panic |-> FALSE]
         ELSE [value |-> Nil, found |-> FALSE, panic |-> FALSE]
    ELSE [value |-> Nil, found |-> FALSE, panic |-> TRUE]

UnsafePeek_lenient(w, key) ==
    IF IsLRUCache(w)
    THEN IF key \in DOMAIN w.items
         THEN [value |-> w.elems[w.items[key]].value, found |-> TRUE, panic |-> FALSE]
         ELSE [value |-> Nil, found |-> FALSE, panic |-> FALSE]
    ELSE [value |-> Nil, found |-> FALSE, panic |-> FALSE]

UnsafePeek(w, key) ==
    IF IsLRUCache(w)
    THEN IF key \in DOMAIN w.items
         THEN [value |-> w.elems[w.items[key]].value, found |-> TRUE, panic |-> FALSE]
         ELSE [value |-> Nil, found |-> FALSE, panic |-> FALSE]
    ELSE [value |-> Nil, found |-> FALSE, panic |-> TRUE]

\* SafeLRUCache.UnsafeLen, on the engine.
UnsafeLen(c) == CacheLen(c)

\* The operations that take the mutex, and the calls threads make of them.
SafeKeys == {"a", "b"}
SafeTTLs == {-1, 1}
SafeDeltas == {0, 1}
LockedOps == {"Get", "Set", "SetWithTTL", "Remove", "Len", "State"}

SafeCalls ==
    {Call("Get", k, Nil, 0, "", FALSE, Nil) : k \in SafeKeys}
    \cup {Call("Set", k, "1", 0, "", FALSE, Nil) : k \in SafeKeys}
    \cup {Call("SetWithTTL", k, "1", ttl, "", FALSE, Nil) : k \in SafeKeys, ttl \in SafeTTLs}
    \cup {Call("Remove", k, Nil, 0, "", FALSE, Nil) : k \in SafeKeys}
    \cup {Call("Len", "", Nil, 0, "", FALSE, Nil), Call("State", "", Nil, 0, "", FALSE, Nil)}

\* The method of the wrapped object a wrapper operation invokes.
Invocation(call) == [method |-> call.op, key |-> call.key, value |-> call.value, ttl |-> call.ttl]

\* The wrapped call on the cache c: the cache it leaves, the states in
\* between, and the call with its results.  t1 and t2 are the clock readings.
Wrapped(c, call, t1, t2) ==
    CASE call.op = "Get" ->
           LET r == Get(c, call.key, Instant(t1))
           IN [c |-> r.c, steps |-> Get_steps(c, call.key, Instant(t1)),
               call |-> [call EXCEPT !.found = r.found, !.ret = r.value]]
      [] call.op = "Set" ->
           LET r == Set(c, call.key, call.value)
           IN [c |-> r.c, steps |-> set_steps(c, call.key, call.value, ZeroTime),
               call |-> [call EXCEPT !.status = r.status]]
      [] call.op = "SetWithTTL" ->
           LET r == SetWithTTL(c, call.key, call.value, call.ttl, t1, t2)
           IN [c |-> r.c,
               steps |-> SetWithTTL_steps(c, call.key, call.value, call.ttl, t1, t2),
               call |-> [call EXCEPT !.status = r.status]]
      [] call.op = "Remove" ->
           [c |-> Remove(c, call.key), steps |-> remove_steps(c, call.key),
            call |-> call]
      [] call.op = "Len" ->
           [c |-> c, steps |-> << >>, call |-> [call EXCEPT !.ret = CacheLen(c)]]
      [] call.op = "State" ->
           LET r == State(c)
           IN [c |-> r.w, steps |-> << >>, call |-> [call EXCEPT !.ret = r.state]]

\* sync.Mutex
Lock_noMutex(m, t) == m

Lock(m, t) == t

Unlock_held(m, t) == m

Unlock(m, t) == Free

SafeInit ==
    /\ \E cap \in 1..MaxCap :
          /\ cache = Fields(NewSafeLRUCache(cap))
          /\ ref = [c |-> Fields(NewSafeLRUCache(cap)), ret |-> NoCall]
    /\ metrics = << >>
    /\ now = 1
    /\ last = NoCall
    /\ plan = << >>
    /\ hist = << >>
    /\ mutex = Free
    /\ threads = [t \in Threads |-> Idle]

\* A thread calls an operation of the wrapper that takes the mutex and
\* reaches mutex.Lock().  The arguments of the call play no part before the
\* mutex is acquired: they are drawn when the wrapped method starts.
Invoke(t) ==
    /\ threads[t].pc = "idle"
    /\ threads' = [threads EXCEPT ![t].pc = "waiting"]
    /\ UNCHANGED <<cache, metrics, now, last, plan, hist, mutex, ref>>

\* mutex.Lock() returns and the wrapped method starts: it reads the clock
\* (twice in SetWithTTL, d apart) and has its mutations ahead of it.
Acquire(t, call, d) ==
    /\ threads[t].pc = "waiting"
    /\ mutex = Free
    /\ now + d <= MaxTime
    /\ d # 0 => call.op = "SetWithTTL"
    /\ \E r \in {Wrapped(Cache, call, now, now + d)},
          s \in {Wrapped(Engine(ref.c), call, now, now + d)} :
          /\ threads' = [threads EXCEPT ![t] =
                 [pc |-> "inside", call |-> r.call,
                  steps |-> [i \in 1..Len(r.steps) |-> Fields(r.steps[i])]
                            \o << Canonical(r.c) >>,
                  inner |-> IF call.op = "State" THEN << >> ELSE << Invocation(call) >>]]
          /\ ref' = [c |-> Fields(Canonical(s.c)), ret |-> s.call]
    /\ mutex' = Lock(mutex, t)
    /\ now' = now + d
    /\ metrics' = << >>
    /\ UNCHANGED <<cache, last, plan, hist>>

\* The wrapped method makes its next mutation; after the last one it returns.
Inside(t) ==
    /\ threads[t].pc = "inside"
    /\ LET steps == threads[t].steps IN
       IF Len(steps) > 1
       THEN /\ cache' = Head(steps)
            /\ threads' = [threads EXCEPT ![t].steps = Tail(steps)]
            /\ UNCHANGED metrics
       ELSE /\ cache' = Fields(Head(steps))
            /\ metrics' = Head(steps).metrics
            /\ threads' = [threads EXCEPT ![t].pc = "done", ![t].steps = << >>]
    /\ UNCHANGED <<now, last, plan, hist, mutex, ref>>

\* The deferred mutex.Unlock() runs and the call returns to its caller.
Release(t) ==
    /\ threads[t].pc = "done"
    /\ threads[t].call.op \in LockedOps
    /\ mutex' = Unlock(mutex, t)
    /\ threads' = [threads EXCEPT ![t] = Idle]
    /\ metrics' = << >>
    /\ UNCHANGED <<cache, now, last, plan, hist, ref>>

\* UnsafePeek, UnsafeLen and Capacity read the wrapped cache without the mutex.
Returning(call, inner) == [pc |-> "done", call |-> call, steps |-> << >>, inner |-> inner]
Panicking(call) == [pc |-> "panicked", call |-> call, steps |-> << >>, inner |-> << >>]

\* UnsafePeek reads the map while the thread inside the engine is about to
\* write it (an insertion or a deletion of a key): a data race, on which the
\* runtime may stop the whole process with a fatal error.
MapWriteAhead ==
    \E u \in Threads :
        /\ threads[u].pc = "inside"
        /\ DOMAIN Head(threads[u].steps).items # DOMAIN cache.items

\* A read of the map that races with a write of it may also miss the key.
UnsafePeekCall(t, key) ==
    /\ threads[t].pc = "idle"
    /\ \E r \in {UnsafePeek(cache, key)}
              \cup (IF IsLRUCache(cache) /\ MapWriteAhead
                    THEN {[value |-> Nil, found |-> FALSE, panic |-> FALSE]}
                    ELSE {}) :
          threads' = [threads EXCEPT ![t] =
              IF r.panic
              THEN Panicking(Call("UnsafePeek", key, Nil, 0, "", FALSE, Nil))
              ELSE Returning(Call("UnsafePeek", key, Nil, 0, "", r.found, r.value), << >>)]
    /\ UNCHANGED <<cache, metrics, now, last, plan, hist, mutex, ref>>

\* The race of UnsafePeek with a write of the map, ended by the runtime.
Crashed(call) == [pc |-> "crashed", call |-> call, steps |-> << >>, inner |-> << >>]

UnsafePeekFatal(t, key) ==
    /\ threads[t].pc = "idle"
    /\ MapWriteAhead
    /\ threads' = [u \in Threads |->
          IF u = t THEN Crashed(Call("UnsafePeek", key, Nil, 0, "", FALSE, Nil))
          ELSE Crashed(threads[u].call)]
    /\ UNCHANGED <<cache, metrics, now, last, plan, hist, mutex, ref>>

\* UnsafeLen, were it to wait for the mutex to be free.
UnsafeLenCall_waiting(t) ==
    /\ threads[t].pc = "idle"
    /\ mutex = Free
    /\ \E call \in {Call("UnsafeLen", "", Nil, 0, "", FALSE, UnsafeLen(Cache))} :
          threads' = [threads EXCEPT ![t] =
              Returning(call, << [Invocation(call) EXCEPT !.method = "Len"] >>)]
    /\ UNCHANGED <<cache, metrics, now, last, plan, hist, mutex, ref>>

UnsafeLenCall(t) ==
    /\ threads[t].pc = "idle"
    /\ \E call \in {Call("UnsafeLen", "", Nil, 0, "", FALSE, UnsafeLen(Cache))} :
          threads' = [threads EXCEPT ![t] =
              Returning(call, << [Invocation(call) EXCEPT !.method = "Len"] >>)]
    /\ UNCHANGED <<cache, metrics, now, last, plan, hist, mutex, ref>>

CapacityCall(t) ==
    /\ threads[t].pc = "idle"
    /\ \E call \in {Call("Capacity", "", Nil, 0, "", FALSE, Capacity(Cache))} :
          threads' = [threads EXCEPT ![t] = Returning(call, << Invocation(call) >>)]
    /\ UNCHANGED <<cache, metrics, now, last, plan, hist, mutex, ref>>

\* A call that did not take the mutex returns to its caller.
Return(t) ==
    /\ threads[t].pc = "done"
    /\ threads[t].call.op \notin LockedOps
    /\ threads' = [threads EXCEPT ![t] = Idle]
    /\ UNCHANGED <<cache, metrics, now, last, plan, hist, mutex, ref>>

SafeTick ==
    /\ now < MaxTime
    /\ now' = now + 1
    /\ UNCHANGED <<cache, metrics, last, plan, hist, mutex, threads, ref>>

\* The operations of the Cache interface and State.
LockedNext ==
    \/ \E t \in Threads : Invoke(t)
    \/ \E t \in Threads, call \in SafeCalls, d \in SafeDeltas : Acquire(t, call, d)
    \/ \E t \in Threads : Inside(t)
    \/ \E t \in Threads : Release(t)
    \/ \E t \in Threads : CapacityCall(t)
    \/ \E t \in Threads : Return(t)
    \/ SafeTick

SafeNext ==
    \/ LockedNext
    \/ \E t \in Threads, key \in SafeKeys : UnsafePeekCall(t, key)
    \/ \E t \in Threads, key \in SafeKeys : UnsafePeekFatal(t, key)
    \/ \E t \in Threads : UnsafeLenCall(t)

SpecSafe == SafeInit /\ [][SafeNext]_vars

\* The threads call the operations of the Cache interface and State only,
\* and the thread that holds the mutex is never kept from its next step.
SpecSafeFair ==
    /\ SafeInit /\ [][LockedNext]_vars
    /\ \A t \in Threads : WF_vars(Inside(t)) /\ WF_vars(Release(t))

-----------------------------------------------------------------------------
(* A SafeLRUCache around a Cache that is not the engine: the fakeLRUCache   *)
(* of the wrapper's tests, which notes the methods called on it.           *)

NewFake ==
    [getCalled |-> FALSE, setCalled |-> FALSE, setWithTTLCalled |-> FALSE,
     removeCalled |-> FALSE, lenCalled |-> FALSE, capacityCalled |-> FALSE]

fake_Get(f, key) == [f |-> [f EXCEPT !.getCalled = TRUE], value |-> Nil, found |-> FALSE]
fake_Set(f, key, value) == [f |-> [f EXCEPT !.setCalled = TRUE], status |-> "added"]
fake_SetWithTTL(f, key, value, ttl) ==
    [f |-> [f EXCEPT !.setWithTTLCalled = TRUE], status |-> "added"]
fake_Remove(f, key) == [f EXCEPT !.removeCalled = TRUE]
fake_Len(f) == [f |-> [f EXCEPT !.lenCalled = TRUE], len |-> 0]
fake_Capacity(f) == [f |-> [f EXCEPT !.capacityCalled = TRUE], capacity |-> 0]

\* The wrapped call on the fake f: the fake it leaves, the call with its
\* results, and the methods of the fake invoked, in order.
WrappedFake_lenFirst(f, call) ==
    CASE call.op = "Get" ->
           LET r == fake_Get(fake_Len(f).f, call.key)
           IN [f |-> r.f, call |-> [call EXCEPT !.found = r.found, !.ret = r.value],
               inner |-> << [Invocation(call) EXCEPT !.method = "Len"], Invocation(call) >>]
      [] call.op = "Set" ->
           LET r == fake_Set(f, call.key, call.value)
           IN [f |-> r.f, call |-> [call EXCEPT !.status = r.status],
               inner |-> << Invocation(call) >>]
      [] call.op = "SetWithTTL" ->
           LET r == fake_SetWithTTL(f, call.key, call.value, call.ttl)
           IN [f |-> r.f, call |-> [call EXCEPT !.status = r.status],
               inner |-> << Invocation(call) >>]
      [] call.op = "Remove" ->
           [f |-> fake_Remove(f, call.key), call |-> call,
            inner |-> << Invocation(call) >>]
      [] call.op = "Len" ->
           LET r == fake_Len(f)
           IN [f |-> r.f, call |-> [call EXCEPT !.ret = r.len],
               inner |-> << Invocation(call) >>]
      [] call.op = "State" ->
           LET r == State(f)
           IN [f |-> r.w, call |-> [call EXCEPT !.ret = r.state], inner |-> << >>]

WrappedFake(f, call) ==
    CASE call.op = "Get" ->
           LET r == fake_Get(f, call.key)
           IN [f |-> r.f, call |-> [call EXCEPT !.found = r.found, !.ret = r.value],
               inner |-> << Invocation(call) >>]
      [] call.op = "Set" ->
           LET r == fake_Set(f, call.key, call.value)
           IN [f |-> r.f, call |-> [call EXCEPT !.status = r.status],
               inner |-> << Invocation(call) >>]
      [] call.op = "SetWithTTL" ->
           LET r == fake_SetWithTTL(f, call.key, call.value, call.ttl)
           IN [f |-> r.f, call |-> [call EXCEPT !.status = r.status],
               inner |-> << Invocation(call) >>]
      [] call.op = "Remove" ->
           [f |-> fake_Remove(f, call.key), call |-> call,
            inner |-> << Invocation(call) >>]
      [] call.op = "Len" ->
           LET r == fake_Len(f)
           IN [f |-> r.f, call |-> [call EXCEPT !.ret = r.len],
               inner |-> << Invocation(call) >>]
      [] call.op = "State" ->
           LET r == State(f)
           IN [f |-> r.w, call |-> [call EXCEPT !.ret = r.state], inner |-> << >>]

FakeInit ==
    /\ cache = NewFake
    /\ ref = NoRef
    /\ metrics = << >>
    /\ now = 1
    /\ last = NoCall
    /\ plan = << >>
    /\ hist = << >>
    /\ mutex = Free
    /\ threads = [t \in Threads |-> Idle]

\* mutex.Lock() returns: the thread is about to call the wrapped method.
FakeAcquire(t, call) ==
    /\ threads[t].pc = "waiting"
    /\ mutex = Free
    /\ mutex' = Lock(mutex, t)
    /\ threads' = [threads EXCEPT ![t] =
          [pc |-> "inside", call |-> call, steps |-> << >>, inner |-> << >>]]
    /\ UNCHANGED <<cache, metrics, now, last, plan, hist, ref>>

\* The wrapped method runs and returns.
FakeInside(t) ==
    /\ threads[t].pc = "inside"
    /\ \E r \in {WrappedFake(cache, threads[t].call)} :
          /\ cache' = r.f
          /\ threads' = [threads EXCEPT ![t].pc = "done", ![t].call = r.call,
                                       ![t].inner = r.inner]
    /\ UNCHANGED <<metrics, now, last, plan, hist, mutex, ref>>

FakeUnsafeLenCall(t) ==
    /\ threads[t].pc = "idle"
    /\ \E r \in {fake_Len(cache)} :
          /\ cache' = r.f
          /\ \E call \in {Call("UnsafeLen", "", Nil, 0, "", FALSE, r.len)} :
                threads' = [threads EXCEPT ![t] =
                    Returning(call, << [Invocation(call) EXCEPT !.method = "Len"] >>)]
    /\ UNCHANGED <<metrics, now, last, plan, hist, mutex, ref>>

FakeCapacityCall(t) ==
    /\ threads[t].pc = "idle"
    /\ \E r \in {fake_Capacity(cache)} :
          /\ cache' = r.f
          /\ \E call \in {Call("Capacity", "", Nil, 0, "", FALSE, r.capacity)} :
                threads' = [threads EXCEPT ![t] = Returning(call, << Invocation(call) >>)]
    /\ UNCHANGED <<metrics, now, last, plan, hist, mutex, ref>>

\* The caller of a call that panicked recovers, as assert.Panics does.
Recover(t) ==
    /\ threads[t].pc = "panicked"
    /\ threads' = [threads EXCEPT ![t] = Idle]
    /\ UNCHANGED <<cache, metrics, now, last, plan, hist, mutex, ref>>

FakeNext ==
    \/ \E t \in Threads : Invoke(t)
    \/ \E t \in Threads, call \in SafeCalls : FakeAcquire(t, call)
    \/ \E t \in Threads : FakeInside(t)
    \/ \E t \in Threads : Release(t)
    \/ \E t \in Threads, key \in SafeKeys : UnsafePeekCall(t, key)
    \/ \E t \in Threads : FakeUnsafeLenCall(t)
    \/ \E t \in Threads : FakeCapacityCall(t)
    \/ \E t \in Threads : Return(t)
    \/ \E t \in Threads : Recover(t)

SpecFake == FakeInit /\ [][FakeNext]_vars

-----------------------------------------------------------------------------
(* One caller at a time on a wrapped engine of capacity three and four     *)
(* keys: the calls of the engine, UnsafePeek and State, each from its call *)
(* to its return.                                                          *)

OrderKeys == {"a", "b", "c", "d"}
OrderValues == {"1"}
OrderTTLs == {1}
OrderDeltas == {0, 2}

OrderInit ==
    /\ \E cap \in {Cardinality(OrderKeys) - 1} :
          /\ cache = Fields(NewLRUCache(cap))
          /\ metrics = NewLRUCache(cap).metrics
    /\ now = 1
    /\ last = NoCall
    /\ plan = <<>>
    /\ hist = <<>>
    /\ mutex = Free
    /\ threads = [t \in Threads |-> Idle]
    /\ ref = NoRef

PeekCall(key) ==
    /\ \E r \in {UnsafePeek(cache, key)} :
          last' = Call("UnsafePeek", key, Nil, 0, "", r.found, r.value)
    /\ Commit(Cache)
    /\ UNCHANGED <<now, plan, hist, mutex, threads, ref>>

StateCall ==
    /\ \E r \in {State(Cache)} :
          /\ Commit(r.w)
          /\ last' = Call("State", "", Nil, 0, "", FALSE, r.state)
    /\ UNCHANGED <<now, plan, hist, mutex, threads, ref>>

OrderNext ==
    \/ \E key \in OrderKeys : GetCall(key)
    \/ \E key \in OrderKeys, value \in OrderValues : SetCall(key, value)
    \/ \E key \in OrderKeys, value \in OrderValues, ttl \in OrderTTLs, d \in OrderDeltas :
          SetWithTTLCall(key, value, ttl, d)
    \/ \E key \in OrderKeys : RemoveCall(key)
    \/ \E key \in OrderKeys : PeekCall(key)
    \/ StateCall
    \/ Tick

SpecOrder == OrderInit /\ [][OrderNext]_vars

-----------------------------------------------------------------------------
(* A SafeLRUCache made by NewSafeLRUCacheFrom(original) around an engine    *)
(* the caller built and still holds: the threads call the wrapper, and they *)
(* call the methods of original, which take no mutex.                       *)

RECURSIVE Filled(_, _)
Filled(c, ks) ==
    IF ks = << >> THEN c ELSE Filled(Set(c, Head(ks), "1").c, Tail(ks))

NewSafeLRUCacheFrom(original) == original

SharedInit ==
    /\ \E cap \in 1..MaxCap, ks \in {<< >>, <<"a">>, <<"a", "b">>} :
          /\ cache = Fields(Canonical(NewSafeLRUCacheFrom(Filled(NewLRUCache(cap), ks))))
          /\ ref = [c |-> Fields(Canonical(NewSafeLRUCacheFrom(Filled(NewLRUCache(cap), ks)))),
                    ret |-> NoCall]
    /\ metrics = << >>
    /\ now = 1
    /\ last = NoCall
    /\ plan = << >>
    /\ hist = << >>
    /\ mutex = Free
    /\ threads = [t \in Threads |-> Idle]

\* The calls of this development: no TTL, so that the clock plays no part.
SharedCalls == {call \in SafeCalls : call.op \in {"Get", "Set", "Remove", "Len"}}

\* The thread of a call on original is in the engine with no mutex held.
Called(call) == [pc |-> "called", call |-> call, steps |-> << >>, inner |-> << >>]

\* Some thread is between two mutations of a call through the wrapper.
InEngine == \E u \in Threads : threads[u].pc = "inside"

\* original.Get, Set, Remove or Len, called by a thread that holds no
\* mutex, whatever the other thread is doing: it works on the engine as it
\* finds it, between two mutations of the other thread if that is the case.
OriginalCall(t, call) ==
    /\ threads[t].pc = "idle"
    /\ \E r \in {Wrapped(Cache, call, now, now)} :
          /\ cache' = Fields(IF InEngine THEN r.c ELSE Canonical(r.c))
          /\ metrics' = r.c.metrics
          /\ threads' = [threads EXCEPT ![t] = Called(r.call)]
    /\ UNCHANGED <<now, last, plan, hist, mutex, ref>>

\* The call on original meets a write of the map by the thread inside the
\* wrapper: a data race, on which the runtime may stop the whole process.
OriginalFatal(t, call) ==
    /\ threads[t].pc = "idle"
    /\ call.op # "Len"
    /\ MapWriteAhead
    /\ threads' = [u \in Threads |->
          IF u = t THEN Crashed(call) ELSE Crashed(threads[u].call)]
    /\ UNCHANGED <<cache, metrics, now, last, plan, hist, mutex, ref>>

OriginalReturn(t) ==
    /\ threads[t].pc = "called"
    /\ threads' = [threads EXCEPT ![t] = Idle]
    /\ UNCHANGED <<cache, metrics, now, last, plan, hist, mutex, ref>>

SharedNext ==
    \/ \E t \in Threads : Invoke(t)
    \/ \E t \in Threads, call \in SharedCalls : Acquire(t, call, 0)
    \/ \E t \in Threads : Inside(t)
    \/ \E t \in Threads : Release(t)
    \/ \E t \in Threads, call \in SharedCalls : OriginalCall(t, call)
    \/ \E t \in Threads, call \in SharedCalls : OriginalFatal(t, call)
    \/ \E t \in Threads : OriginalReturn(t)

SpecShared == SharedInit /\ [][SharedNext]_vars

-----------------------------------------------------------------------------
(* An engine made by NewLRUCache(capacity) with capacity <= 0, which the    *)
(* constructor takes as it takes any other int, under the same calls.       *)

NonPositive == {-1, 0}

ZeroInit ==
    /\ \E cap \in NonPositive :
          /\ cache = Fields(NewLRUCache(cap))
          /\ metrics = NewLRUCache(cap).metrics
    /\ now = 1
    /\ last = NoCall
    /\ plan = <<>>
    /\ hist = <<>>
    /\ mutex = Free
    /\ threads = [t \in Threads |-> Idle]
    /\ ref = NoRef

SpecZero == ZeroInit /\ [][Next]_vars

-----------------------------------------------------------------------------
(* What the properties below speak of. *)

Order == cache.usageOrder
Index == cache.items
StoredKeys == DOMAIN cache.items
EntryIn(c, key) == c.elems[c.items[key]]
EntryOf(key) == EntryIn(cache, key)

\* The entries in recency order, most recently used first.
Entries == [i \in 1..Len(cache.usageOrder) |-> cache.elems[cache.usageOrder[i]]]
KeysInOrder == [i \in 1..Len(cache.usageOrder) |-> cache.elems[cache.usageOrder[i]].key]

Without(seq, key) == SelectSeq(seq, LAMBDA e : e.key # key)
FrontPart(seq) == SubSeq(seq, 1, Len(seq) - 1)

Observed(m, reason) ==
    {i \in 1..Len(metrics) : metrics[i].metric = m /\ metrics[i].reason = reason}
Evictions == {i \in 1..Len(metrics) : metrics[i].metric = "evictions"}

IsSet(call) == call.op = "Set" \/ call.op = "SetWithTTL"

-----------------------------------------------------------------------------
\* C1: for a cache of capacity C >= 1, after every completed call of any
\* sequence of Set, SetWithTTL, Get and Remove calls, with any passage of
\* time between them, Len() <= C.
C1_LenWithinCapacity ==
    cache.capacity >= 1 => CacheLen(cache) <= Capacity(cache)

\* An insertion into a full cache of capacity 2 or more has just completed.
C1_Witness ==
    /\ IsSet(last) /\ last.status = setStatusAdded
    /\ Observed("evictions", metricReasonEvicted) # {}
    /\ cache.capacity >= 2
    /\ CacheLen(cache) = cache.capacity

\* C2: after every completed engine operation the index and the recency
\* order are in bijection: the keys of the index are the keys stored in the
\* nodes, no key is in two nodes, index[k] is the node whose entry has key k,
\* and there are as many index keys as nodes.
C2_IndexOrderBijection ==
    /\ StoredKeys = {cache.elems[e].key : e \in Range(Order)}
    /\ \A i, j \in 1..Len(Order) :
          i # j => /\ Order[i] # Order[j]
                   /\ cache.elems[Order[i]].key # cache.elems[Order[j]].key
    /\ \A k \in StoredKeys :
          /\ Index[k] \in Range(Order)
          /\ cache.elems[Index[k]].key = k
    /\ Cardinality(StoredKeys) = Len(Order)

\* A key has just been removed from a cache that still holds another one.
C2_Witness ==
    /\ last.op = "Remove"
    /\ Observed("evictions", metricReasonManual) # {}
    /\ CacheLen(cache) >= 1
    /\ last.key \notin StoredKeys

\* C3: when Set or SetWithTTL (with a result that is not expired) inserts a
\* key that is not in the index while Len() = capacity, exactly one entry is
\* evicted, the one at the back of the recency order before the call; every
\* other entry stays, the new key ends at the front and the status is added.
\* When Len() < capacity nothing is evicted.
C3_Inserting ==
    /\ IsSet(last')
    /\ last'.key \notin StoredKeys
    /\ last'.status # setStatusExpired

C3_InsertEvictsOnlyTheBack ==
    [][C3_Inserting =>
          /\ last'.status = setStatusAdded
          /\ Len(Entries') >= 1
          /\ Entries'[1].key = last'.key
          /\ Entries'[1].value = last'.value
          /\ CacheLen(cache) = cache.capacity =>
                /\ Tail(Entries') = FrontPart(Entries)
                /\ Cardinality(Evictions') = 1
                /\ Observed("evictions", metricReasonEvicted)' = Evictions'
          /\ CacheLen(cache) < cache.capacity =>
                /\ Tail(Entries') = Entries
                /\ Evictions' = {}]_vars

\* A new key has just been inserted into a full cache of two or more entries.
C3_Witness ==
    /\ IsSet(last) /\ last.status = setStatusAdded
    /\ Cardinality(Observed("evictions", metricReasonEvicted)) = 1
    /\ CacheLen(cache) = cache.capacity
    /\ CacheLen(cache) >= 2
    /\ KeysInOrder[1] = last.key

-----------------------------------------------------------------------------
(* The scripted runs: n, the keys k1..kn and the key inserted last. *)

ScriptN == Len(plan) - 2
ScriptKey(i) == plan[i].key
InsertedFirst == {ScriptKey(i) : i \in 1..ScriptN}
InsertedLast == plan[Len(plan)].key
ScriptDone == Len(hist) >= Len(plan)

\* C4 as stated: for every capacity C and every n <= C, after inserting the
\* distinct keys k1..kn in order into an empty cache, calling Get(k1) and
\* inserting one more new key, k1 is still in the cache and the key least
\* recently touched before the Get (k2, the oldest of the others) is evicted.
C4_Original ==
    ScriptDone =>
        /\ ScriptKey(1) \in StoredKeys
        /\ ScriptN >= 2 => ScriptKey(2) \notin StoredKeys

\* C4 as amended: with n = C >= 2, k1 is still in the cache and k2 is the one
\* key evicted; with n < C the last insertion evicts nothing; with n = C = 1
\* it evicts k1 itself.
C4_RecencyAfterGet ==
    ScriptDone =>
        /\ (ScriptN = cache.capacity /\ ScriptN >= 2) =>
              StoredKeys = (InsertedFirst \ {ScriptKey(2)}) \cup {InsertedLast}
        /\ ScriptN < cache.capacity =>
              StoredKeys = InsertedFirst \cup {InsertedLast}
        /\ (ScriptN = cache.capacity /\ ScriptN = 1) =>
              StoredKeys = {InsertedLast}
        /\ hist[ScriptN + 1].found
        /\ \A i \in 1..Len(plan) : i # ScriptN + 1 => hist[i].status = setStatusAdded

\* A full cache of two or more keys has gone through the whole script.
C4_Witness ==
    /\ ScriptDone
    /\ ScriptN = cache.capacity
    /\ ScriptN >= 2
    /\ ScriptKey(1) \in StoredKeys
    /\ ScriptKey(2) \notin StoredKeys

\* C5: on a cache of capacity 2, Set(a,1) returns added, Set(b,2) returns
\* added, Get(a) returns (1,true), Set(c,3) returns added and evicts b, then
\* Get(b) returns (nil,false), Get(a) returns (1,true) and Get(c) returns
\* (3,true).
EndToEnd ==
    << Call("Set", "a", "1", 0, setStatusAdded, FALSE, Nil),
       Call("Set", "b", "2", 0, setStatusAdded, FALSE, Nil),
       Call("Get", "a", Nil, 0, "", TRUE, "1"),
       Call("Set", "c", "3", 0, setStatusAdded, FALSE, Nil),
       Call("Get", "b", Nil, 0, "", FALSE, Nil),
       Call("Get", "a", Nil, 0, "", TRUE, "1"),
       Call("Get", "c", Nil, 0, "", TRUE, "3") >>

SameCall(x, y) == x.op = y.op /\ x.key = y.key /\ x.value = y.value

\* The calls made so far are the first calls of the end-to-end example.
OnEndToEnd ==
    /\ cache.capacity = 2
    /\ Len(plan) = 4
    /\ \A i \in 1..4 : SameCall(plan[i], EndToEnd[i])
    /\ Len(hist) <= Len(EndToEnd)
    /\ \A i \in 1..Len(hist) : SameCall(hist[i], EndToEnd[i])

C5_EndToEnd ==
    OnEndToEnd =>
        /\ \A i \in 1..Len(hist) : hist[i] = EndToEnd[i]
        /\ Len(hist) >= 4 => StoredKeys = {"a", "c"}
        /\ Len(hist) = 4 => Observed("evictions", metricReasonEvicted) # {}

\* The whole example has been run.
C5_Witness ==
    /\ OnEndToEnd
    /\ hist = EndToEnd

-----------------------------------------------------------------------------
\* An entry's expiration is set and lies before the instant t.
PastExpiry(e, t) == ~e.expiresAt.isZero /\ e.expiresAt.t < t

\* C6: Get never returns found = true for an entry whose expiresAt is set
\* and in the past at the time of the call: it returns (nil, false) and
\* removes exactly that entry from the index and from the recency order (Len
\* decreases by one, the other entries and their order are unchanged).
C6_GetOnExpired ==
    /\ last'.op = "Get"
    /\ last'.key \in StoredKeys
    /\ PastExpiry(EntryOf(last'.key), now)

C6_ExpiredGetPurges ==
    [][C6_GetOnExpired =>
          /\ ~last'.found
          /\ last'.ret = Nil
          /\ StoredKeys' = StoredKeys \ {last'.key}
          /\ Entries' = Without(Entries, last'.key)
          /\ CacheLen(cache') = CacheLen(cache) - 1]_vars

\* A Get has just purged an expired entry and left another entry in place.
C6_Witness ==
    /\ last.op = "Get" /\ ~last.found
    /\ Observed("evictions", metricReasonExpired) # {}
    /\ last.key \notin StoredKeys
    /\ CacheLen(cache) >= 1

\* C7: an entry stored by SetWithTTL(k, v, d) that has not since been
\* removed, evicted or overwritten is returned by Get(k) as (v, true) at every
\* instant before d has elapsed and is not found at every instant after; the
\* comparison is strict, so at the instant equal to expiresAt it is still
\* found.  In three parts: what SetWithTTL stores, that nothing but a Set or
\* SetWithTTL of the same key changes a stored entry, and what Get answers.
C7_Stores ==
    (last'.op = "SetWithTTL" /\ last'.status # setStatusExpired) =>
        /\ last'.key \in StoredKeys'
        /\ EntryIn(cache', last'.key) =
              [key |-> last'.key, value |-> last'.value,
               expiresAt |-> Instant(now + last'.ttl)]

C7_Keeps ==
    \A k \in StoredKeys \cap StoredKeys' :
        \/ IsSet(last') /\ last'.key = k
        \/ EntryIn(cache', k) = EntryIn(cache, k)

C7_Answers ==
    (/\ last'.op = "Get"
     /\ last'.key \in StoredKeys
     /\ ~EntryOf(last'.key).expiresAt.isZero) =>
        /\ last'.found <=> (now <= EntryOf(last'.key).expiresAt.t)
        /\ last'.found => last'.ret = EntryOf(last'.key).value
        /\ ~last'.found => last'.ret = Nil

C7_FoundUntilExpiry ==
    [][C7_Stores /\ C7_Keeps /\ C7_Answers]_vars

\* A Get has just found an entry at the very instant of its expiration.
C7_Witness ==
    /\ last.op = "Get" /\ last.found
    /\ last.key \in StoredKeys
    /\ EntryOf(last.key).expiresAt = Instant(now)
    /\ last.ret = EntryOf(last.key).value

\* C8: Set on a key in the index returns updated, replaces the value and
\* leaves Len() and the stored keys unchanged (nothing is evicted, even from
\* a full cache); Set on a key not in the index while Len() < capacity
\* returns added and increases Len() by one.  Set never returns expired.
C8_SetUpdatesOrAdds ==
    [][last'.op = "Set" =>
          /\ last'.status \in {setStatusAdded, setStatusUpdated}
          /\ last'.key \in StoredKeys =>
                /\ last'.status = setStatusUpdated
                /\ EntryIn(cache', last'.key).value = last'.value
                /\ CacheLen(cache') = CacheLen(cache)
                /\ StoredKeys' = StoredKeys
                /\ Evictions' = {}
          /\ (last'.key \notin StoredKeys /\ CacheLen(cache) < cache.capacity) =>
                /\ last'.status = setStatusAdded
                /\ CacheLen(cache') = CacheLen(cache) + 1]_vars

\* A Set has just updated a key of a full cache of two or more entries.
C8_Witness ==
    /\ last.op = "Set" /\ last.status = setStatusUpdated
    /\ CacheLen(cache) = cache.capacity
    /\ CacheLen(cache) >= 2
    /\ EntryOf(last.key).value = last.value

\* C9: SetWithTTL(key, value, 0) on an absent key returns expired and leaves
\* the key absent (Len unchanged); on a present key it returns expired and
\* removes the key (Len decreases by one).  The same for every negative ttl.
C9_NonPositiveTTLExpires ==
    [][(last'.op = "SetWithTTL" /\ last'.ttl <= 0) =>
          /\ last'.status = setStatusExpired
          /\ last'.key \notin StoredKeys'
          /\ CacheLen(cache') =
                CacheLen(cache) - (IF last'.key \in StoredKeys THEN 1 ELSE 0)]_vars

\* C10: whenever SetWithTTL(key, value, ttl) returns expired, the resulting
\* cache (index, recency order, every remaining entry's value and expiration)
\* is the one Remove(key) would have produced from the same starting state:
\* no other entry is evicted or reordered.
C10_ExpiredIsRemove ==
    [][(last'.op = "SetWithTTL" /\ last'.status = setStatusExpired) =>
          cache' = Fields(Canonical(Remove(Cache, last'.key)))]_vars

\* A SetWithTTL has just returned expired, removing its key from a cache that
\* keeps another entry.
C10_Witness ==
    /\ last.op = "SetWithTTL" /\ last.status = setStatusExpired
    /\ Observed("evictions", metricReasonExpired) # {}
    /\ last.key \notin StoredKeys
    /\ CacheLen(cache) >= 1

-----------------------------------------------------------------------------
\* C11: SetWithTTL(key, value, ttl) with ttl > 0 never returns expired: it
\* follows the insert/update path of Set (added if the key was absent,
\* updated if present, with the same capacity eviction), and the stored
\* entry's expiration is the call instant plus ttl.
C11_PositiveTTLNeverExpired ==
    [][(last'.op = "SetWithTTL" /\ last'.ttl > 0) =>
          /\ last'.status # setStatusExpired
          /\ last'.status = (IF last'.key \in StoredKeys
                             THEN setStatusUpdated ELSE setStatusAdded)
          /\ cache' = Fields(Canonical(
                 set(Cache, last'.key, last'.value, Instant(now + last'.ttl)).c))]_vars

\* C12: Remove(key) on a key that is not in the cache changes nothing (index,
\* recency order, entry values and expirations) and observes nothing; so a
\* second Remove(key) leaves the state the first one left, and after
\* Remove(key) a Get(key) returns (nil, false).
C12_RemoveOnAbsent ==
    (last'.op = "Remove" /\ last'.key \notin StoredKeys) =>
        /\ cache' = cache
        /\ metrics' = <<>>

C12_RemoveAgain ==
    last'.op = "Remove" =>
        /\ last'.key \notin StoredKeys'
        /\ Fields(Canonical(Remove(Cache', last'.key))) = cache'
        /\ Remove(Cache', last'.key).metrics = <<>>
        /\ ~Get(Cache', last'.key, Instant(now')).found
        /\ Get(Cache', last'.key, Instant(now')).value = Nil

C12_GetAfterRemove ==
    (last.op = "Remove" /\ last'.op = "Get" /\ last'.key = last.key) =>
        /\ ~last'.found
        /\ last'.ret = Nil
        /\ cache' = cache

C12_RemoveIdempotent ==
    [][C12_RemoveOnAbsent /\ C12_RemoveAgain /\ C12_GetAfterRemove]_vars

\* A Remove of a key that is not stored has just left a cache of two entries
\* as it was.
C12_Witness ==
    /\ last.op = "Remove"
    /\ last.key \notin StoredKeys
    /\ metrics = <<>>
    /\ CacheLen(cache) >= 2

-----------------------------------------------------------------------------
(* The wrapper: what the threads are doing. *)

\* Thread t is in the wrapped cache on behalf of an operation that locks.
InWrapped(t) ==
    /\ threads[t].pc \in {"inside", "done"}
    /\ threads[t].call.op \in LockedOps

Returned(t, op) == threads[t].pc = "done" /\ threads[t].call.op = op

\* Thread t makes the step of UnsafePeek.
Peeks(t) ==
    /\ threads[t].pc = "idle"
    /\ threads'[t].pc # "idle"
    /\ threads'[t].call.op = "UnsafePeek"

\* C13: with the threads calling Get, Set, SetWithTTL and Remove through
\* SafeLRUCache in any interleaving, on the same or on different keys, every
\* state in which the mutex is free has |index| = |recency order| <= capacity
\* and the index and the recency order in bijection.
C13_ConsistentWhenUnlocked ==
    mutex = Free =>
        /\ Cardinality(StoredKeys) = Len(Order)
        /\ Len(Order) <= cache.capacity
        /\ C2_IndexOrderBijection

\* The mutex is free, a full cache of two keys has been built and both
\* threads are back at mutex.Lock().
C13_Witness ==
    /\ mutex = Free
    /\ \A t \in Threads : threads[t].pc = "waiting"
    /\ CacheLen(cache) = cache.capacity
    /\ CacheLen(cache) >= 2

\* C14: the wrapper never deadlocks.  An operation takes the mutex once,
\* waits for nothing while it holds it and releases it when it returns: when
\* a thread waits for the mutex some thread can take a step, the mutex is
\* free again as soon as its holder has returned, and every operation that
\* has acquired the mutex completes.
C14_ThreadStep ==
    \E t \in Threads :
        \/ \E call \in SafeCalls, d \in SafeDeltas : Acquire(t, call, d)
        \/ Inside(t)
        \/ Release(t)
        \/ Return(t)

C14_Progress ==
    (\E t \in Threads : threads[t].pc = "waiting") => ENABLED C14_ThreadStep

C14_ReleasedOnReturn ==
    \A t \in Threads :
        /\ (threads[t].pc = "waiting" /\ threads'[t].pc = "inside") =>
              (mutex = Free /\ mutex' = t)
        /\ (InWrapped(t) /\ threads'[t].pc = "idle") => (mutex = t /\ mutex' = Free)
        /\ (InWrapped(t) /\ threads'[t].pc # "idle") => (mutex = t /\ mutex' = t)

C14_NoDeadlock ==
    /\ []C14_Progress
    /\ [][C14_ReleasedOnReturn]_vars
    /\ \A t \in Threads : (threads[t].pc = "inside") ~> (threads[t].pc = "idle")

\* A thread holds the mutex in the middle of a call while the other waits.
C14_Witness ==
    \E t, u \in Threads :
        /\ threads[t].pc = "inside" /\ Len(threads[t].steps) >= 2
        /\ mutex = t
        /\ threads[u].pc = "waiting"

\* C15: at any instant at most one thread is inside the wrapped cache on
\* behalf of Get, Set, SetWithTTL, Remove or Len (or inside the walk of
\* State), and it holds the mutex; Capacity is the contract operation that
\* runs without the mutex, and it reads only the capacity, which never changes.
C15_OneInside ==
    /\ \A t, u \in Threads : (InWrapped(t) /\ InWrapped(u)) => t = u
    /\ \A t \in Threads : InWrapped(t) => mutex = t
    /\ \A t \in Threads : Returned(t, "Capacity") => threads[t].call.ret = cache.capacity
    /\ \A t \in Threads :
          (threads[t].pc \in {"inside", "done"} /\ mutex # t) =>
              threads[t].call.op \in {"Capacity", "UnsafePeek", "UnsafeLen"}

C15_MutualExclusion ==
    /\ []C15_OneInside
    /\ [][cache'.capacity = cache.capacity]_vars

\* Capacity has returned to one thread while the other is inside the cache,
\* in the middle of a call.
C15_Witness ==
    \E t, u \in Threads :
        /\ Returned(t, "Capacity")
        /\ threads[u].pc = "inside" /\ Len(threads[u].steps) >= 2
        /\ mutex = u

\* C16: for any concurrent execution of the wrapper's Get, Set, SetWithTTL,
\* Remove and Len calls, what every call returns and the state of the cache
\* are those of an unwrapped LRUCache given the same calls one at a time, in
\* the order in which the calls acquired the mutex.
C16_Linearizable ==
    /\ mutex = Free => cache = ref.c
    /\ \A t \in Threads :
          (threads[t].pc = "done" /\ threads[t].call.op \in LockedOps) =>
              /\ threads[t].call = ref.ret
              /\ cache = ref.c

\* A Set that evicted a key has returned to one thread, before the other,
\* which waits for the mutex, could run.
C16_Witness ==
    \E t, u \in Threads :
        /\ Returned(t, "Set")
        /\ threads[t].call.status = setStatusAdded
        /\ Observed("evictions", metricReasonEvicted) # {}
        /\ threads[u].pc = "waiting"
        /\ cache = ref.c

\* C17: UnsafePeek(key) on a wrapper around the engine, called while no other
\* thread is about to write the index, returns (value, true) for every key
\* in the index, entries whose TTL has elapsed included, and (nil, false)
\* otherwise; it changes nothing: recency order, index, Len and
\* expirations are the same before and after, so a peeked key at the back is
\* still the next one evicted.
C17_PeekReadsOnly ==
    [][\A t \in Threads : (Peeks(t) /\ ~MapWriteAhead) =>
          /\ threads'[t].pc = "done"
          /\ threads'[t].call.found <=> threads'[t].call.key \in StoredKeys
          /\ threads'[t].call.found =>
                threads'[t].call.ret = EntryOf(threads'[t].call.key).value
          /\ ~threads'[t].call.found => threads'[t].call.ret = Nil
          /\ cache' = cache
          /\ metrics' = metrics
          /\ mutex' = mutex]_vars

\* UnsafePeek has returned the value of an entry whose TTL has elapsed and
\* which is at the back of a full cache of two entries, with the mutex free.
C17_Witness ==
    \E t \in Threads :
        /\ Returned(t, "UnsafePeek")
        /\ threads[t].call.found
        /\ mutex = Free
        /\ CacheLen(cache) = 2 /\ cache.capacity = 2
        /\ KeysInOrder[2] = threads[t].call.key
        /\ PastExpiry(EntryOf(threads[t].call.key), now)

C19_StateListsTheOrder ==
    \A t \in Threads : Returned(t, "State") =>
        LET st == threads[t].call.ret IN
        /\ st.Capacity = cache.capacity
        /\ Len(st.Items) = Len(Entries)
        /\ \A i \in 1..Len(st.Items) :
              /\ st.Items[i].Key = Entries[i].key
              /\ st.Items[i].ExpiresAt = Entries[i].expiresAt
              /\ st.Items[i].Prev = (IF i = 1 THEN "" ELSE st.Items[i - 1].Key)
              /\ st.Items[i].Next = (IF i = Len(st.Items) THEN "" ELSE st.Items[i + 1].Key)

\* State() has returned two items, the first of them with an expiration.
C19_Witness ==
    \E t \in Threads :
        /\ Returned(t, "State")
        /\ Len(threads[t].call.ret.Items) = 2
        /\ ~IsZero(threads[t].call.ret.Items[1].ExpiresAt)
        /\ threads[t].call.ret.Items[1].Next = threads[t].call.ret.Items[2].Key

\* C20: State() is read-only: the index, the recency order, Len and every
\* entry's value and expiration are the same before and after the call;
\* entries whose TTL has elapsed are listed and are not purged, and no entry
\* changes position.
C20_InState(t) ==
    /\ threads[t].call.op = "State" \/ threads'[t].call.op = "State"
    /\ threads'[t] # threads[t]

C20_StateReadsOnly ==
    [][\A t \in Threads : C20_InState(t) =>
          /\ cache' = cache
          /\ threads'[t].pc = "done" =>
                [i \in 1..Len(threads'[t].call.ret.Items) |->
                    threads'[t].call.ret.Items[i].Key] = KeysInOrder]_vars

\* State() has listed an entry whose TTL has elapsed, and the entry is still
\* in the cache.
C20_Witness ==
    \E t \in Threads :
        /\ Returned(t, "State")
        /\ \E i \in 1..Len(threads[t].call.ret.Items) :
              /\ PastExpiry(Entries[i], now)
              /\ threads[t].call.ret.Items[i].Key = Entries[i].key

-----------------------------------------------------------------------------
\* The method of the Cache interface a wrapper operation stands for, and the
\* flag the fake raises when that method is called.
C21_Method(op) == IF op = "UnsafeLen" THEN "Len" ELSE op

C21_Flag(method) ==
    CASE method = "Get" -> "getCalled"
      [] method = "Set" -> "setCalled"
      [] method = "SetWithTTL" -> "setWithTTLCalled"
      [] method = "Remove" -> "removeCalled"
      [] method = "Len" -> "lenCalled"
      [] method = "Capacity" -> "capacityCalled"

C21_Result(f, call) ==
    CASE call.op = "Get" ->
           call.found = fake_Get(f, call.key).found /\ call.ret = fake_Get(f, call.key).value
      [] call.op = "Set" -> call.status = fake_Set(f, call.key, call.value).status
      [] call.op = "SetWithTTL" ->
           call.status = fake_SetWithTTL(f, call.key, call.value, call.ttl).status
      [] call.op = "Remove" -> TRUE
      [] call.op \in {"Len", "UnsafeLen"} -> call.ret = fake_Len(f).len
      [] call.op = "Capacity" -> call.ret = fake_Capacity(f).capacity

\* C21: each operation of SafeLRUCache (Get, Set, SetWithTTL, Remove, Len,
\* Capacity, UnsafeLen) invokes the corresponding method of the wrapped Cache
\* exactly once, with the same arguments, invokes no other method of it, and
\* returns what the method returned.
C21_DelegatesOnce ==
    [][\A t \in Threads :
          (threads[t].pc # "done" /\ threads'[t].pc = "done"
           /\ threads'[t].call.op # "State") =>
             LET call == threads'[t].call
                 method == C21_Method(call.op)
             IN /\ threads'[t].inner =
                      << [method |-> method, key |-> call.key,
                          value |-> call.value, ttl |-> call.ttl] >>
                /\ threads[t].pc = "inside" =>
                      /\ call.op = threads[t].call.op
                      /\ call.key = threads[t].call.key
                      /\ call.value = threads[t].call.value
                      /\ call.ttl = threads[t].call.ttl
                /\ cache' = [cache EXCEPT ![C21_Flag(method)] = TRUE]
                /\ C21_Result(cache, call)]_vars

\* SetWithTTL has returned through the wrapper, and of the fake's methods
\* only SetWithTTL has ever been called.
C21_Witness ==
    \E t \in Threads :
        /\ Returned(t, "SetWithTTL")
        /\ threads[t].call.status = "added"
        /\ cache = [NewFake EXCEPT !.setWithTTLCalled = TRUE]

-----------------------------------------------------------------------------
\* The observations of the last call on one collector.
Count(m) == Cardinality({i \in 1..Len(metrics) : metrics[i].metric = m})

Labelled(m, op) ==
    \A i \in 1..Len(metrics) :
        metrics[i].metric = m =>
            metrics[i].cache_type = cache.name /\ metrics[i].operation = op

\* C22: every Get call records its lookup outcome: it increments exactly one
\* of the hit counter (when it returns found = true) or the miss counter (when
\* it returns found = false, the key being absent or its entry expired),
\* labelled with the cache name and the operation get.
C22_GetCountsHitOrMiss ==
    [][last'.op = "Get" =>
          /\ Count("hits")' = (IF last'.found THEN 1 ELSE 0)
          /\ Count("misses")' = (IF last'.found THEN 0 ELSE 1)
          /\ Labelled("hits", metricOpGet)'
          /\ Labelled("misses", metricOpGet)']_vars

\* C23: every removal of an entry increments the eviction counter exactly
\* once, with reason manual when Remove caused it, expired when a Get that
\* found the entry expired or a SetWithTTL with the result expired caused it,
\* and evicted when the capacity caused it; a call that removes nothing does
\* not increment it; and every SetWithTTL call observes its ttl, whatever its
\* status.
C23_Reason ==
    CASE last'.op = "Remove" -> metricReasonManual
      [] last'.op = "Get" -> metricReasonExpired
      [] last'.op = "SetWithTTL" /\ last'.status = setStatusExpired -> metricReasonExpired
      [] OTHER -> metricReasonEvicted

C23_EvictionsCounted ==
    [][/\ Cardinality(Evictions') = Cardinality(StoredKeys \ StoredKeys')
       /\ \A i \in Evictions' : metrics'[i].reason = C23_Reason
       /\ \A i \in Evictions' : metrics'[i].val = 1
       /\ Count("expiration")' = (IF last'.op = "SetWithTTL" THEN 1 ELSE 0)
       /\ \A i \in 1..Len(metrics') :
             metrics'[i].metric = "expiration" => metrics'[i].val = last'.ttl]_vars

\* A SetWithTTL that returned expired has removed its key from a cache that
\* keeps another entry, and has counted one eviction and observed its ttl.
C23_Witness ==
    /\ last.op = "SetWithTTL" /\ last.status = setStatusExpired
    /\ Cardinality(Observed("evictions", metricReasonExpired)) = 1
    /\ Count("expiration") = 1
    /\ CacheLen(cache) >= 1

-----------------------------------------------------------------------------
KeysWithout(seq, key) == SelectSeq(seq, LAMBDA k : k # key)

\* The call just made touched its key: it inserted it, updated it, or read it.
C24_Touch ==
    \/ IsSet(last') /\ last'.status # setStatusExpired
    \/ last'.op = "Get" /\ last'.found

\* C24: after every completed operation the recency order lists the stored
\* keys in decreasing order of their last touch (an insertion, an update by
\* Set or SetWithTTL, or a Get that found the key): the touched key moves to
\* the front and the relative order of all other entries is preserved, less
\* the back one when the insertion evicted it; Get misses, expired Gets,
\* Remove, UnsafePeek and State never move a surviving entry.
C24_RecencyOrder ==
    [][/\ C24_Touch =>
             KeysInOrder' =
                <<last'.key>> \o
                (IF last'.key \notin StoredKeys /\ CacheLen(cache) >= cache.capacity
                 THEN FrontPart(KeysInOrder)
                 ELSE KeysWithout(KeysInOrder, last'.key))
       /\ (~C24_Touch /\ last'.op \in {"Get", "Remove", "SetWithTTL"}) =>
             KeysInOrder' = KeysWithout(KeysInOrder, last'.key)
       /\ last'.op \in {"UnsafePeek", "State", "Tick"} =>
             KeysInOrder' = KeysInOrder]_vars

\* A Get has just found the key that was the least recently used of three
\* and moved it to the front of the other two.
C24_Witness ==
    /\ last.op = "Get" /\ last.found
    /\ CacheLen(cache) = 3
    /\ KeysInOrder = <<"a", "c", "b">>
    /\ last.key = "a"

-----------------------------------------------------------------------------
\* C25: Set(k, v) on a key that is stored with a TTL answers "updated",
\* leaves Len as it was and leaves the entry with value v and no deadline,
\* also when the deadline had already passed and the entry was still stored;
\* every later Get(k) of the run, at whatever instant, answers (v, true).
C25_SetOnTTL ==
    /\ last'.op = "Set"
    /\ last'.key \in StoredKeys
    /\ ~IsZero(EntryOf(last'.key).expiresAt)

C25_Overrides ==
    C25_SetOnTTL =>
        /\ last'.status = setStatusUpdated
        /\ CacheLen(cache') = CacheLen(cache)
        /\ DOMAIN cache'.items = StoredKeys
        /\ EntryIn(cache', last'.key) =
              [key |-> last'.key, value |-> last'.value, expiresAt |-> ZeroTime]

C25_LaterGets ==
    (Len(hist) >= Len(plan) /\ hist[Len(plan)].status = setStatusUpdated) =>
        \A i \in (Len(plan) + 1)..Len(hist) :
            hist[i].key = hist[Len(plan)].key =>
                /\ hist[i].found
                /\ hist[i].ret = hist[Len(plan)].value

C25_SetOverridesTTL == [][C25_Overrides]_vars /\ []C25_LaterGets

\* The TTL of 1 had passed during a sleep of 2, Set answered "updated", and
\* a Get at the last instant of the clock found the new value.
C25_Witness ==
    /\ Len(hist) > Len(plan)
    /\ hist[1].status = setStatusAdded
    /\ hist[3].op = "Sleep" /\ hist[3].ttl > hist[1].ttl
    /\ hist[4].op = "Set" /\ hist[4].status = setStatusUpdated
    /\ last.op = "Get" /\ last.key = hist[4].key
    /\ last.found /\ last.ret = hist[4].value
    /\ now >= MaxTime
    /\ CacheLen(cache) = 2

-----------------------------------------------------------------------------
\* C26: expiration is lazy.  The passage of time alone leaves the index,
\* the recency order and Len as they were.  An entry past its deadline
\* stays stored, and counted by Len, through every call except a Get or a
\* Remove of its own key, a SetWithTTL of its own key that answers
\* "expired", and the insertion of a new key into a full cache while the
\* entry is at the back; each of those calls takes it out.
C26_Purges(k) ==
    \/ last'.op \in {"Get", "Remove"} /\ last'.key = k
    \/ last'.op = "SetWithTTL" /\ last'.key = k /\ last'.status = setStatusExpired
    \/ /\ IsSet(last') /\ last'.status = setStatusAdded
       /\ CacheLen(cache) >= cache.capacity
       /\ KeysInOrder[Len(KeysInOrder)] = k

C26_Step ==
    /\ last'.op \in {"Tick", "New"} => cache' = cache
    /\ \A k \in StoredKeys :
          PastExpiry(EntryOf(k), now) =>
             /\ C26_Purges(k) <=> k \notin DOMAIN cache'.items
             /\ k \in DOMAIN cache'.items =>
                   /\ CacheLen(cache') = Cardinality(DOMAIN cache'.items)
                   /\ \E i \in 1..CacheLen(cache') :
                         cache'.elems[cache'.usageOrder[i]].key = k

C26_LazyExpiration == [][C26_Step]_vars

\* An entry past its deadline is still stored after a Get of another key.
C26_Witness ==
    /\ last.op = "Get"
    /\ \E k \in StoredKeys :
          /\ k # last.key
          /\ PastExpiry(EntryOf(k), now)
          /\ CacheLen(cache) = 2

-----------------------------------------------------------------------------
\* C27: State() called while other threads call the wrapper returns the
\* snapshot of the engine as it is between two completed operations, those
\* that took the mutex before it having been applied whole and no other in
\* part: the items have distinct keys, are at most capacity in number, and
\* the Prev and Next of neighbouring items name each other.
C27_Snapshot(st) ==
    /\ st = State(Engine(ref.c)).state
    /\ \A i, j \in 1..Len(st.Items) : st.Items[i].Key = st.Items[j].Key => i = j
    /\ Len(st.Items) <= st.Capacity
    /\ \A i \in 1..Len(st.Items) :
          /\ i > 1 => st.Items[i].Prev = st.Items[i - 1].Key
                      /\ st.Items[i - 1].Next = st.Items[i].Key
          /\ i = 1 => st.Items[i].Prev = ""
          /\ i = Len(st.Items) => st.Items[i].Next = ""

C27_StateIsAtomic ==
    \A t \in Threads : Returned(t, "State") => C27_Snapshot(threads[t].call.ret)

\* State() has returned the two items of a full cache while the other thread
\* waits for the mutex with a call of its own.
C27_Witness ==
    \E t, u \in Threads :
        /\ Returned(t, "State")
        /\ threads[u].pc = "waiting"
        /\ cache.capacity = 2
        /\ Len(threads[t].call.ret.Items) = cache.capacity
        /\ Observed("evictions", metricReasonEvicted) = {}

-----------------------------------------------------------------------------
\* C28: the engine's index and recency order are read or written only by
\* the thread that holds the wrapper's mutex, however the wrapper was made,
\* NewSafeLRUCacheFrom(original) with a caller that still holds original
\* included; UnsafePeek, UnsafeLen and Capacity are the only exceptions.
C28_InEngine(t) ==
    /\ threads'[t] # threads[t]
    /\ threads'[t].pc \in {"inside", "called"} \/ threads[t].pc = "inside"
    /\ threads'[t].call.op \notin {"UnsafePeek", "UnsafeLen", "Capacity"}

C28_OnlyTheLockHolder ==
    [][\A t \in Threads : C28_InEngine(t) => mutex' = t]_vars

-----------------------------------------------------------------------------
\* C29: UnsafePeek and UnsafeLen neither take nor wait for the wrapper's
\* mutex: an idle thread can call them whoever holds the mutex, the call
\* leaves the mutex and the engine as they are and can return at once.  So
\* they read the engine between two mutations of a locked call, and what
\* UnsafeLen returns is the length of the list at that moment, which need
\* not be a length the cache has between two completed operations.
C29_Unsafe(t) ==
    /\ threads[t].pc = "idle"
    /\ threads'[t].pc # "idle"
    /\ threads'[t].call.op \in {"UnsafePeek", "UnsafeLen"}

C29_NoLock ==
    \A t \in Threads : C29_Unsafe(t) =>
        /\ mutex' = mutex
        /\ cache' = cache
        /\ threads'[t].call.op = "UnsafeLen" => threads'[t].call.ret = CacheLen(cache)

C29_NeverWaits ==
    \A t \in Threads :
        /\ threads[t].pc = "idle" =>
              /\ ENABLED UnsafeLenCall(t)
              /\ \A key \in SafeKeys : ENABLED UnsafePeekCall(t, key)
        /\ (threads[t].pc = "done" /\ threads[t].call.op \in {"UnsafePeek", "UnsafeLen"}) =>
              ENABLED Return(t)

C29_UnsafeBypassTheLock == []C29_NeverWaits /\ [][C29_NoLock]_vars

\* UnsafeLen has returned one less than the capacity while the other thread,
\* inside a Set that found the cache full, has evicted the back entry and
\* not yet inserted its key: the cache is full before and after that Set.
C29_Witness ==
    \E t, u \in Threads :
        /\ Returned(t, "UnsafeLen")
        /\ threads[t].call.ret = cache.capacity - 1
        /\ mutex = u
        /\ threads[u].pc = "inside"
        /\ threads[u].call.op = "Set"
        /\ threads[u].call.status = setStatusAdded
        /\ CacheLen(cache) = cache.capacity - 1
        /\ CacheLen(ref.c) = cache.capacity
        /\ \E i \in 1..Len(threads[u].steps[Len(threads[u].steps)].metrics) :
              threads[u].steps[Len(threads[u].steps)].metrics[i].reason = metricReasonEvicted

-----------------------------------------------------------------------------
\* C30: capacity eviction takes no account of expiration.  An insertion of
\* a new key into a cache whose list is as long as its capacity, entries
\* past their deadline counted, takes out the back node and nothing else,
\* whether or not that entry has expired and whether or not another one
\* has; an insertion into a shorter list takes out nothing.
C30_Inserts == IsSet(last') /\ last'.status = setStatusAdded

C30_Step ==
    C30_Inserts =>
        IF CacheLen(cache) >= cache.capacity
        THEN /\ DOMAIN cache'.items =
                   (StoredKeys \ {KeysInOrder[Len(KeysInOrder)]}) \cup {last'.key}
             /\ \A k \in StoredKeys \ {KeysInOrder[Len(KeysInOrder)]} :
                   EntryIn(cache', k) = EntryOf(k)
        ELSE DOMAIN cache'.items = StoredKeys \cup {last'.key}

C30_EvictionIgnoresExpiry == [][C30_Step]_vars

\* In a cache of capacity 2 the first key was stored without a TTL and the
\* second with a TTL that passed during the sleep; the third Set evicted the
\* first key, and the expired second one is still stored.
C30_Witness ==
    /\ Len(hist) = Len(plan)
    /\ cache.capacity = 2
    /\ hist[1].op = "Set" /\ hist[1].status = setStatusAdded
    /\ hist[2].op = "SetWithTTL" /\ hist[2].status = setStatusAdded
    /\ hist[3].op = "Sleep" /\ hist[3].ttl > hist[2].ttl
    /\ hist[4].op = "Set" /\ hist[4].status = setStatusAdded
    /\ hist[1].key \notin StoredKeys
    /\ hist[2].key \in StoredKeys
    /\ PastExpiry(EntryOf(hist[2].key), now)
    /\ Observed("evictions", metricReasonEvicted) # {}

-----------------------------------------------------------------------------
\* C31: NewLRUCache takes a capacity <= 0 and the cache does not stay
\* empty: an insertion of a new key, the first one included, leaves that key
\* as the only one stored, the key stored before it having been evicted, so
\* Len is 1, above the capacity, after every insertion and never more than
\* 1, and a Get finds no key but the last one inserted.
C31_Insertion ==
    (IsSet(last') /\ last'.status = setStatusAdded) =>
        /\ DOMAIN cache'.items = {last'.key}
        /\ CacheLen(cache') = 1
        /\ CacheLen(cache') > cache'.capacity
        /\ Cardinality(Evictions') = CacheLen(cache)
        /\ \A i \in Evictions' : metrics'[i].reason = metricReasonEvicted
        /\ EntryIn(cache', last'.key).value = last'.value

C31_OnlyTheLast ==
    (last'.op = "Get" /\ last'.found) =>
        /\ StoredKeys = {last'.key}
        /\ last'.ret = EntryOf(last'.key).value

C31_AtMostOne ==
    /\ cache.capacity <= 0
    /\ CacheLen(cache) <= 1
    /\ Cardinality(StoredKeys) = CacheLen(cache)

====
